---------------------------- MODULE Spec2Model ----------------------------
(***************************************************************************)
(* A model of vCardConvert.py: the command-line driver main(), the vCard   *)
(* parser parse_vcard() with its line loop and its grouped-field resolver, *)
(* and the helpers format_phone() and format_address().                    *)
(*                                                                         *)
(* Text is modelled as a sequence of lexemes: a Python string is a tuple   *)
(* of words and punctuation marks, "TEL;type=CELL:555-123-4567" being      *)
(* <<"TEL", ";", "type", "=", "CELL", ":", "555", "-", "123", "-", "4567">>*)
(* and the string functions of the source (strip, split, startswith,       *)
(* splitlines, join, capitalize, lower, the regular expressions) are       *)
(* operators on such tuples.  A word is never cut inside.  A value that a  *)
(* step of the source names and reads several times is the parameter of an *)
(* operator here, so the operators come in short chains.                   *)
(***************************************************************************)
EXTENDS Integers, Sequences, FiniteSets, TLC

VARIABLES
    args,            \* argparse namespace and the file-system facts main() reads
    pc,              \* position of the program
    exit_code,       \* -1 while running, else the process exit status
    exc,             \* "none", or the uncaught exception that ended the run
    preferred,       \* parse_vcard.preferred
    phone_enabled,   \* format_phone.enabled
    address_enabled, \* format_address.enabled
    reorder_enabled, \* custom_column_ordering.enabled
    content,         \* text of the input file
    entries,         \* parse_vcard: list of entry texts
    index,           \* parse_vcard: number of entries already taken
    fields,          \* parse_vcard: lines of the current entry
    fi,              \* parse_vcard: position in fields of the next line
    skip_photo,      \* parse_vcard: PHOTO skip flag
    groups,          \* parse_vcard: dict item key -> values, in insertion order
    gi,              \* parse_vcard: position in groups of the next group
    save,            \* parse_vcard: pair list of the current entry
    unknown_name,    \* parse_vcard: debug name of the current entry
    unknown,         \* parse_vcard: debug list of unknown lines
    output,          \* parse_vcard: record list
    written,         \* renderers that ran: subset of {"csv", "json", "display"}
    headers          \* the renderers' header list, <<>> before they run

vars == <<args, pc, exit_code, exc, preferred, phone_enabled, address_enabled,
          reorder_enabled, content, entries, index, fields, fi, skip_photo,
          groups, gi, save, unknown_name, unknown, output, written, headers>>

-----------------------------------------------------------------------------
(* Python str methods on lexeme sequences *)

NL == "\n"

Whitespace == {" ", "\t", NL}

RECURSIVE lstrip(_)
lstrip(s) ==
    IF s = <<>> THEN s
    ELSE IF Head(s) \in Whitespace THEN lstrip(Tail(s)) ELSE s

RECURSIVE rstrip(_)
rstrip(s) ==
    IF s = <<>> THEN s
    ELSE IF s[Len(s)] \in Whitespace THEN rstrip(SubSeq(s, 1, Len(s) - 1)) ELSE s

strip(s) == rstrip(lstrip(s))

startswith(s, p) == Len(s) >= Len(p) /\ SubSeq(s, 1, Len(p)) = p

endswith(s, p) == Len(s) >= Len(p) /\ SubSeq(s, Len(s) - Len(p) + 1, Len(s)) = p

\* the least and the greatest position of a set of positions, 0 for none
least(S) == IF S = {} THEN 0 ELSE CHOOSE k \in S : \A j \in S : k <= j

greatest(S) == IF S = {} THEN 0 ELSE CHOOSE k \in S : \A j \in S : j <= k

\* str.find: least position >= from at which sep occurs in s, 0 when there is none
find(s, sep, from) ==
    least({k \in from..(Len(s) - Len(sep) + 1) : SubSeq(s, k, k + Len(sep) - 1) = sep})

contains(s, sep) == find(s, sep, 1) # 0

\* s.split(sep): every occurrence of sep cuts; k is the first one
RECURSIVE split(_, _)
cut(s, sep, k) ==
    IF k = 0 THEN <<s>>
    ELSE <<SubSeq(s, 1, k - 1)>> \o split(SubSeq(s, k + Len(sep), Len(s)), sep)

split(s, sep) == cut(s, sep, find(s, sep, 1))

\* s.split(sep, 1): only the first occurrence of sep cuts
cut1(s, sep, k) ==
    IF k = 0 THEN <<s>>
    ELSE <<SubSeq(s, 1, k - 1), SubSeq(s, k + Len(sep), Len(s))>>

split1(s, sep) == cut1(s, sep, find(s, sep, 1))

\* s.splitlines(): no empty last line after a final line break, none for ""
splitlines(s) ==
    IF s = <<>> THEN <<>>
    ELSE split(IF s[Len(s)] = NL THEN SubSeq(s, 1, Len(s) - 1) ELSE s, <<NL>>)

\* sep.join(parts)
RECURSIVE join(_, _)
join(parts, sep) ==
    IF parts = <<>> THEN <<>>
    ELSE IF Len(parts) = 1 THEN parts[1]
    ELSE parts[1] \o sep \o join(Tail(parts), sep)

\* parts[-1]
last(parts) == parts[Len(parts)]

UpperWords == {"INTERNET", "WORK", "HOME", "CELL", "PAGER", "FAX", "APPLEWATCH",
               "IPHONE", "OTHER", "MAIN", "VOICE", "PREF"}

LowerWords == {"pref", "twitter", "work", "home", "type"}

AlphaWords == UpperWords \cup LowerWords

DigitWords == {"1", "2", "01", "05", "12", "555", "000", "123", "1111", "4567", "1604", "1990"}

\* str.capitalize() of one word
capitalize1(w) ==
    CASE w = "INTERNET" -> "Internet"
      [] w \in {"WORK", "work"} -> "Work"
      [] w \in {"HOME", "home"} -> "Home"
      [] w = "CELL" -> "Cell"
      [] w = "PAGER" -> "Pager"
      [] w = "FAX" -> "Fax"
      [] w = "APPLEWATCH" -> "Applewatch"
      [] w = "IPHONE" -> "Iphone"
      [] w = "OTHER" -> "Other"
      [] w = "MAIN" -> "Main"
      [] w = "VOICE" -> "Voice"
      [] w \in {"PREF", "pref"} -> "Pref"
      [] w = "twitter" -> "Twitter"
      [] w = "type" -> "Type"
      [] OTHER -> w

\* str.lower() of one word
lower1(w) ==
    CASE w = "INTERNET" -> "internet"
      [] w = "WORK" -> "work"
      [] w = "HOME" -> "home"
      [] w = "CELL" -> "cell"
      [] w = "PAGER" -> "pager"
      [] w = "FAX" -> "fax"
      [] w = "APPLEWATCH" -> "applewatch"
      [] w = "IPHONE" -> "iphone"
      [] w = "OTHER" -> "other"
      [] w = "MAIN" -> "main"
      [] w = "VOICE" -> "voice"
      [] w = "PREF" -> "pref"
      [] OTHER -> w

\* str.capitalize(): the first character upper case, the rest lower case
capitalize(s) ==
    IF s = <<>> THEN s
    ELSE <<capitalize1(s[1])>> \o [k \in 1..(Len(s) - 1) |-> lower1(s[k + 1])]

\* int(digits) and str(int)
int(w) == CASE w \in {"1", "01"} -> 1 [] w = "2" -> 2 [] OTHER -> 0

str(n) == CASE n = 1 -> "1" [] n = 2 -> "2" [] OTHER -> "0"

\* repr of a list of str, as the f-string prints groups[group]
RECURSIVE quoted(_)
quoted(vs) ==
    IF vs = <<>> THEN <<>>
    ELSE <<<<"'">> \o vs[1] \o <<"'">>>> \o quoted(Tail(vs))

repr(vs) == <<"[">> \o join(quoted(vs), <<", ">>) \o <<"]">>

-----------------------------------------------------------------------------
(* The regular expressions: a match is the tuple of its groups, <<>> is None *)

\* regex["vcard_grouped_field"].match(s)
vcard_grouped_field(s) ==
    IF Len(s) >= 4 /\ s[1] = "item" /\ s[2] \in DigitWords /\ s[3] = "."
    THEN <<s[2], SubSeq(s, 4, Len(s))>> ELSE <<>>

\* regex["vcard_extra_label"].match(s)
vcard_extra_label(s) ==
    IF /\ Len(s) >= 3 /\ s[1] = "_$!<" /\ s[Len(s)] = ">!$_"
       /\ \A k \in 2..(Len(s) - 1) : s[k] \notin {">", ">!$_"}
    THEN <<SubSeq(s, 2, Len(s) - 1)>> ELSE <<>>

\* regex["vcard_comm_type_single"].match(s): a prefix match
vcard_comm_type_single(s) ==
    IF Len(s) >= 3 /\ s[1] = "type" /\ s[2] = "=" /\ s[3] \in UpperWords
    THEN <<s[3]>> ELSE <<>>

\* regex["vcard_comm_type_compound"].match(s)
vcard_comm_type_compound(s) ==
    IF Len(s) >= 5 /\ s[1] = "type" /\ s[2] = "=" /\ s[3] \in AlphaWords /\ s[4] = ":"
    THEN <<s[3], SubSeq(s, 5, Len(s))>> ELSE <<>>

\* regex["vcard_comm_type_pref"].match(s)
vcard_comm_type_pref(s) ==
    IF Len(s) >= 5 /\ s[1] = "type" /\ s[2] = "=" /\ s[3] \in AlphaWords /\ s[4] = ":"
    THEN <<s[3], SubSeq(s, 5, Len(s))>>
    ELSE IF /\ Len(s) >= 9 /\ s[1] = "type" /\ s[2] = "=" /\ s[3] \in AlphaWords
            /\ SubSeq(s, 4, 8) = <<";", "type", "=", "pref", ":">>
    THEN <<s[3], SubSeq(s, 9, Len(s))>> ELSE <<>>

\* match.group(1) where a test on the match came first: "" for no match
group1(match) == IF match = <<>> THEN "" ELSE match[1]

\* the text after the yearless-date marker that starts at position k
after_marker(s, k) == IF k = 0 THEN s ELSE SubSeq(s, k + 6, Len(s))

\* regex["apple_yearless_date"].sub("", s): the greedy .* reaches the last marker
apple_yearless_date_sub(s) ==
    after_marker(s, greatest({k \in 1..(Len(s) - 5) :
        /\ s[k] = "X-APPLE-OMIT-YEAR" /\ s[k + 1] = "="
        /\ s[k + 2] \in DigitWords /\ s[k + 3] = ":"
        /\ s[k + 4] \in DigitWords /\ s[k + 5] = "-"}))

PhoneSeparators == {"-", ".", " "}

ThreeDigits == {"555", "000", "123"}

FourDigits == {"1111", "4567"}

\* an optional leading lexeme of a set
optional(s, set) == IF s # <<>> /\ Head(s) \in set THEN Tail(s) ELSE s

\* (?:\+?1[-. ]?)?  plus is s after \+?
phone_country(s, plus) ==
    IF plus # <<>> /\ Head(plus) = "1" THEN optional(Tail(plus), PhoneSeparators) ELSE s

\* (\d{4})$
phone_line(area, exchange, s) ==
    IF Len(s) = 1 /\ s[1] \in FourDigits THEN <<area, exchange, s[1]>> ELSE <<>>

\* (\d{3})[-. ]?
phone_exchange(area, s) ==
    IF s # <<>> /\ Head(s) \in ThreeDigits
    THEN phone_line(area, Head(s), optional(Tail(s), PhoneSeparators)) ELSE <<>>

\* (\d{3})\)?[-. ]?
phone_area(s) ==
    IF s # <<>> /\ Head(s) \in ThreeDigits
    THEN phone_exchange(Head(s), optional(optional(Tail(s), {")"}), PhoneSeparators))
    ELSE <<>>

\* regex["phone_format"].match(s)
phone_format(s) == phone_area(optional(phone_country(s, optional(s, {"+"})), {"("}))

-----------------------------------------------------------------------------
(* format_address, format_phone *)

RECURSIVE nonblank(_)
nonblank(comps) ==
    IF comps = <<>> THEN <<>>
    ELSE (IF strip(comps[1]) # <<>> THEN <<strip(comps[1])>> ELSE <<>>) \o nonblank(Tail(comps))

format_address(address) ==
    IF address_enabled THEN join(nonblank(split(address, <<";">>)), <<", ">>) ELSE address

\* phone = f"{match.group(1)}-{match.group(2)}-{match.group(3)}" on a match
phone_rewrite(phone, match) ==
    IF match # <<>> THEN <<match[1], "-", match[2], "-", match[3]>> ELSE phone

format_phone(phone) ==
    IF phone_enabled THEN phone_rewrite(phone, phone_format(phone)) ELSE phone

-----------------------------------------------------------------------------
(* parse_vcard, the rules of the line loop.  A rule yields the pairs it     *)
(* appended to save, the exception it raised, if any (the pairs appended    *)
(* before the exception are kept), and what it reports to the debug list.   *)

Pair(label, value) == <<label, value>>

Result(pairs, e, report) == [pairs |-> pairs, exc |-> e, unknown |-> report]

Done(pairs) == Result(pairs, "none", <<>>)

Raise(pairs, e) == Result(pairs, e, <<>>)

RECURSIVE flatten(_)
flatten(ss) == IF ss = <<>> THEN <<>> ELSE ss[1] \o flatten(Tail(ss))

Preferred(label) == label \o <<" (Preferred)">>

\* a variant that copies a preferred value whatever parse_vcard.preferred is
pair_and_preferred_always(label, value, pref) ==
    <<Pair(label, value)>> \o (IF pref THEN <<Pair(Preferred(label), value)>> ELSE <<>>)

\* save.append((label, value)), and the "(Preferred)" copy when
\* parse_vcard.preferred is set and the line marks the value as preferred
pair_and_preferred(label, value, pref) ==
    <<Pair(label, value)>>
    \o (IF preferred /\ pref THEN <<Pair(Preferred(label), value)>> ELSE <<>>)

\* if parts[0]: save.append((labels[0], parts[0])) ... for each label in turn
positional(labels, parts) ==
    Raise(flatten([k \in 1..(IF Len(parts) < Len(labels) THEN Len(parts) ELSE Len(labels)) |->
                      IF parts[k] # <<>> THEN <<Pair(labels[k], parts[k])>> ELSE <<>>]),
          IF Len(parts) < Len(labels) THEN "IndexError" ELSE "none")

\* field.split(":", 1)[1].strip()
value_of(field) == strip(split1(field, <<":">>)[2])

IgnoredPrefixes ==
    {<<"BEGIN", ":", "VCARD">>, <<"END", ":", "VCARD">>, <<"VERSION", ":">>,
     <<"PRODID", ":">>, <<"VND-63-SENSITIVE-CONTENT-CONFIG", ":">>}

rule_ignored(field) == \E prefix \in IgnoredPrefixes : startswith(field, prefix)

rule_company(field) == Done(<<Pair(<<"Is Company">>, <<"X">>)>>)

NameLabels == <<<<"Name: ", "Last">>, <<"Name: ", "First">>, <<"Name: ", "Middle">>,
               <<"Name: ", "Prefix">>, <<"Name: ", "Suffix">>>>

rule_N(field) == positional(NameLabels, split(value_of(field), <<";">>))

\* the rules that save (label, field.split(":", 1)[1].strip())
SimplePrefixes ==
    <<<<"FN", ":">>, <<"NICKNAME", ":">>, <<"X-MAIDENNAME", ":">>,
      <<"X-PHONETIC-FIRST-NAME", ":">>, <<"X-PHONETIC-MIDDLE-NAME", ":">>,
      <<"X-PHONETIC-LAST-NAME", ":">>, <<"X-PHONETIC-ORG", ":">>, <<"TITLE", ":">>,
      <<"NOTE", ":">>>>

SimpleLabels ==
    <<<<"Name: ", "Full">>, <<"Name: ", "Nickname">>, <<"Name: ", "Maiden">>,
      <<"Name: ", "First (Phonetic)">>, <<"Name: ", "Middle (Phonetic)">>,
      <<"Name: ", "Last (Phonetic)">>, <<"Organization: ", "Name (Phonetic)">>,
      <<"Organization: ", "Title">>, <<"Note">>>>

rule_simple(k, field) == Done(<<Pair(SimpleLabels[k], value_of(field))>>)

OrgLabels == <<<<"Organization: ", "Name">>, <<"Organization: ", "Department">>>>

\* field[4:] is the text after "ORG:"
rule_ORG(field) == positional(OrgLabels, split(SubSeq(field, 3, Len(field)), <<";">>))

\* field.split(";", 1)[1].strip().split(";")
parameters(field) == split(strip(split1(field, <<";">>)[2]), <<";">>)

\* the type word of a parameter that vcard_comm_type_single matches, else ""
type_single(part) == group1(vcard_comm_type_single(strip(part)))

\* the type word of a parameter that vcard_comm_type_compound matches, else ""
type_compound(part) == group1(vcard_comm_type_compound(strip(part)))

\* the pairs of one parameter of an EMAIL; or TEL; line, match being its
\* vcard_comm_type_compound match
compound_pairs(label, match, phone) ==
    IF match = <<>> THEN <<>>
    ELSE pair_and_preferred(label, IF phone THEN format_phone(match[2]) ELSE match[2],
                            lower1(match[1]) = "pref")

\* label after the first loop: the last type that is not INTERNET, at position k
email_label_at(parts, k) == IF k = 0 THEN <<>> ELSE <<capitalize1(type_single(parts[k]))>>

email_label(parts) ==
    email_label_at(parts, greatest({k \in 1..Len(parts) :
                                       type_single(parts[k]) \notin {"", "INTERNET"}}))

email_pairs(parts) ==
    flatten([k \in 1..Len(parts) |->
        compound_pairs(<<"Email: ">> \o email_label(parts),
                       vcard_comm_type_compound(strip(parts[k])), FALSE)])

rule_EMAIL(field) == Done(email_pairs(parameters(field)))

\* for label in cands: if label in labels: label_select = f"{prefix}{label}"
RECURSIVE select(_, _, _, _)
select(cands, labels, prefix, label_select) ==
    IF cands = <<>> THEN label_select
    ELSE select(Tail(cands), labels, prefix,
                IF Head(cands) \in labels THEN <<prefix, Head(cands)>> ELSE label_select)

\* the if/elif chain that chooses label_select from the collected labels
tel_label_select(labels) ==
    IF "Pager" \in labels THEN <<"Pager">>
    ELSE IF "Fax" \in labels THEN select(<<"Home", "Work", "Other">>, labels, "Fax: ", <<>>)
    ELSE IF "Applewatch" \in labels THEN <<"Phone: ", "Apple Watch">>
    ELSE IF "Iphone" \in labels THEN <<"Phone: ", "iPhone">>
    ELSE IF "Cell" \in labels THEN <<"Phone: ", "Cell">>
    ELSE select(<<"Home", "Work", "Other", "Main">>, labels, "Phone: ", <<>>)

\* the labels list when the compound parameter parts[k] is reached: every
\* single type of the line, the compound types up to parts[k], "Voice" left out
tel_labels(parts, k) ==
    ({capitalize1(type_single(parts[j])) :
         j \in {i \in 1..Len(parts) : type_single(parts[i]) # ""}}
     \cup {capitalize1(type_compound(parts[j])) :
         j \in {i \in 1..k : type_compound(parts[i]) # ""}})
    \ {"Voice"}

tel_pairs(parts) ==
    flatten([k \in 1..Len(parts) |->
        compound_pairs(tel_label_select(tel_labels(parts, k)),
                       vcard_comm_type_compound(strip(parts[k])), TRUE)])

rule_TEL(field) == Done(tel_pairs(parameters(field)))

\* the ADR; rule from its match on, also applied by the resolver to the data
\* line of an X-ABADR group
address_result(match, text) ==
    IF match = <<>> THEN Raise(<<>>, "AttributeError")
    ELSE Done(pair_and_preferred(<<"Address: ", capitalize1(match[1])>>,
                                 format_address(match[2]),
                                 contains(text, <<";", "type", "=", "pref", ":">>)))

rule_ADR(field) ==
    address_result(vcard_comm_type_pref(strip(split1(field, <<";">>)[2])), field)

\* label = parts[0].split("=")[1].capitalize().strip(), then parts[1].strip()
typed_pair(prefix, named, parts) ==
    IF Len(named) < 2 \/ Len(parts) < 2 THEN Raise(<<>>, "IndexError")
    ELSE Done(<<Pair(<<prefix>> \o strip(capitalize(named[2])), strip(parts[2]))>>)

typed_result(prefix, parts) == typed_pair(prefix, split(parts[1], <<"=">>), parts)

\* the X-SOCIALPROFILE; and URL; rules
rule_typed(prefix, field) ==
    typed_result(prefix, split1(strip(split1(field, <<";">>)[2]), <<":">>))

rule_BDAY(field) ==
    Done(<<Pair(<<"Date: ", "Birthday">>,
                strip(last(split1(apple_yearless_date_sub(
                    strip(last(split1(field, <<";">>)))), <<":">>))))>>)

\* a variant of the last rule that reports the line and saves nothing
rule_unknown_dropping(field) == Result(<<>>, "none", <<field>>)

rule_unknown(field) == Result(<<Pair(<<"Unknown">>, field)>>, "none", <<field>>)

\* the rule that takes the stripped line: the first whose test succeeds
classify(field) ==
    IF rule_ignored(field) THEN "ignored"
    ELSE IF field = <<"X-ABShowAs", ":", "COMPANY">> THEN "company"
    ELSE IF startswith(field, <<"N", ":">>) THEN "N"
    ELSE IF \E k \in 1..6 : startswith(field, SimplePrefixes[k]) THEN "simple"
    ELSE IF startswith(field, <<"ORG", ":">>) THEN "ORG"
    ELSE IF \E k \in 7..8 : startswith(field, SimplePrefixes[k]) THEN "simple"
    ELSE IF startswith(field, <<"EMAIL", ";">>) THEN "EMAIL"
    ELSE IF startswith(field, <<"TEL", ";">>) THEN "TEL"
    ELSE IF startswith(field, <<"ADR", ";">>) THEN "ADR"
    ELSE IF startswith(field, <<"X-SOCIALPROFILE", ";">>) THEN "SOCIAL"
    ELSE IF startswith(field, SimplePrefixes[9]) THEN "simple"
    ELSE IF startswith(field, <<"URL", ";">>) THEN "URL"
    ELSE IF startswith(field, <<"BDAY">>) THEN "BDAY"
    ELSE IF vcard_grouped_field(field) # <<>> THEN "group"
    ELSE "unknown"

\* what the rule of a stripped line appends to save
emit_rule(rule, field) ==
    CASE rule = "company" -> rule_company(field)
      [] rule = "N" -> rule_N(field)
      [] rule = "simple" ->
            rule_simple(CHOOSE k \in 1..9 : startswith(field, SimplePrefixes[k]), field)
      [] rule = "ORG" -> rule_ORG(field)
      [] rule = "EMAIL" -> rule_EMAIL(field)
      [] rule = "TEL" -> rule_TEL(field)
      [] rule = "ADR" -> rule_ADR(field)
      [] rule = "SOCIAL" -> rule_typed("Social: ", field)
      [] rule = "URL" -> rule_typed("URL: ", field)
      [] rule = "BDAY" -> rule_BDAY(field)
      [] rule = "unknown" -> rule_unknown(field)
      [] OTHER -> Done(<<>>)

emit(field) == emit_rule(classify(field), field)

-----------------------------------------------------------------------------
(* parse_vcard, the grouped-field resolver *)

\* f"Item Group: {group}, Values: {groups[group]}"
item_group_text(group, values) ==
    <<"Item Group: ", str(group), ", Values: ">> \o repr(values)

\* groups[group][i].split("X-ABLabel:")[1]
label_text(value) == split(value, <<"X-ABLabel", ":">>)[2]

\* data[0].endswith("pref") where data is the value text: data[0] is its first
\* character, and one character does not end with the four of "pref"
first_character_is_pref(data) == FALSE

\* save.append((label, value)), then the test of data[0], which raises
\* IndexError on an empty value when parse_vcard.preferred is set
shown_result(label, data, shown) ==
    IF preferred /\ data = <<>> THEN Raise(<<Pair(label, shown)>>, "IndexError")
    ELSE Done(pair_and_preferred(label, shown, first_character_is_pref(data)))

formatted(value, format) ==
    IF format = "phone" THEN format_phone(value)
    ELSE IF format = "address" THEN format_address(value) ELSE value

value_result(label, parts, format) ==
    IF Len(parts) < 2 THEN Raise(<<>>, "IndexError")
    ELSE shown_result(label, strip(parts[2]), formatted(strip(parts[2]), format))

\* the TEL, ADR and URL branches: data = data.split(":", 1)[1].strip(), the pairs
dispatch_value(kind, label, data, format) ==
    value_result(<<kind>> \o label, split1(data, <<":">>), format)

email_result(label, parts) ==
    IF Len(parts) < 2 THEN Raise(<<>>, "IndexError")
    ELSE Done(pair_and_preferred(<<"Email: ">> \o label, strip(parts[2]),
                                 endswith(parts[1], <<"pref">>)))

dispatch_EMAIL(label, data) ==
    email_result(label, split1(strip(split1(data, <<";">>)[2]), <<":">>))

impp_inner(label, data, inner) ==
    IF Len(inner) < 2 THEN Raise(<<>>, "IndexError")
    ELSE shown_result(<<"IMPP: ">> \o label, data, strip(inner[2]))

impp_result(label, parts) ==
    IF Len(parts) < 2 THEN Raise(<<>>, "IndexError")
    ELSE impp_inner(label, strip(parts[2]), split1(strip(parts[2]), <<":">>))

dispatch_IMPP(label, data) == impp_result(label, split1(data, <<":">>))

dispatch_DATE(label, data) ==
    IF contains(data, <<"X-APPLE-OMIT-YEAR">>)
    THEN Done(<<Pair(<<"Date: ">> \o label, strip(apple_yearless_date_sub(data)))>>)
    ELSE IF ~contains(data, <<":">>) THEN Raise(<<>>, "IndexError")
    ELSE Done(<<Pair(<<"Date: ">> \o label, value_of(data))>>)

dispatch_RELATED(label, data) ==
    IF ~contains(data, <<":">>) THEN Raise(<<>>, "IndexError")
    ELSE Done(<<Pair(<<"Relationship: ">> \o label, value_of(data))>>)

DuplicateServices == {"X-AIM", "X-JABBER", "X-MSN", "X-YAHOO", "X-ICQ"}

starts_either(data, word) ==
    startswith(data, <<word, ":">>) \/ startswith(data, <<word, ";">>)

\* the dispatch on the prefix of data
dispatch_data(group, values, label, data) ==
    IF startswith(data, <<"EMAIL", ";">>) THEN dispatch_EMAIL(label, data)
    ELSE IF \E kind \in {"TEL", "ADR", "URL"} : starts_either(data, kind)
         THEN dispatch_value(
                  IF Head(data) = "TEL" THEN "Phone: "
                  ELSE IF Head(data) = "ADR" THEN "Address: " ELSE "URL: ",
                  label, data,
                  IF Head(data) = "TEL" THEN "phone"
                  ELSE IF Head(data) = "ADR" THEN "address" ELSE "none")
    ELSE IF data # <<>> /\ Head(data) \in DuplicateServices THEN Done(<<>>)
    ELSE IF startswith(data, <<"IMPP", ";">>) THEN dispatch_IMPP(label, data)
    ELSE IF starts_either(data, "X-ABDATE") THEN dispatch_DATE(label, data)
    ELSE IF starts_either(data, "X-ABRELATEDNAMES") THEN dispatch_RELATED(label, data)
    ELSE Result(<<Pair(<<"Unknown">>, item_group_text(group, values))>>, "none",
                <<item_group_text(group, values)>>)

\* label = match.group(1).strip() when vcard_extra_label matches the label
unwrapped(label, match) == IF match # <<>> THEN strip(match[1]) ELSE label

\* what the pairs appended before the dispatch and the dispatch append together
prepended(before, r) == [r EXCEPT !.pairs = before \o @]

\* from the extra-label match to the end of the loop body
dispatch(group, values, label, data, before) ==
    prepended(before, dispatch_data(group, values,
                                    unwrapped(label, vcard_extra_label(label)), data))

abadr_result(data, parts) ==
    IF Len(parts) < 2 THEN Raise(<<>>, "IndexError")
    ELSE address_result(vcard_comm_type_pref(strip(parts[2])), data)

abadr_data(data) == abadr_result(data, split1(data, <<";">>))

\* the international address branch
resolve_ABADR(values) ==
    abadr_data(IF startswith(values[2], <<"X-ABADR", ":">>) THEN values[1] ELSE values[2])

\* a variant that looks for the label in the second value only
label_position_second(values) ==
    IF startswith(values[2], <<"X-ABLabel", ":">>) THEN 2 ELSE 0

\* the position of the value that supplies the label: the second value is
\* tried first; 0 when neither starts with X-ABLabel:
label_position(values) ==
    IF startswith(values[2], <<"X-ABLabel", ":">>) THEN 2
    ELSE IF startswith(values[1], <<"X-ABLabel", ":">>) THEN 1 ELSE 0

\* data = groups[group][0] or groups[group][1]: the value that is not the label
data_value(values, at) == values[3 - at]

resolve_two(group, values, at) ==
    IF /\ at = 0
       /\ startswith(values[1], <<"X-ABADR", ":">>) \/ startswith(values[2], <<"X-ABADR", ":">>)
    THEN resolve_ABADR(values)
    ELSE dispatch(group, values,
                  IF at = 0 THEN <<>> ELSE label_text(values[at]),
                  IF at = 0 THEN <<>> ELSE data_value(values, at),
                  IF at = 0 THEN <<Pair(<<"Unknown">>, item_group_text(group, values))>>
                  ELSE <<>>)

\* the body of "for group in groups": groups[group][1] is read first
resolve(group, values) ==
    IF Len(values) < 2 THEN Raise(<<>>, "IndexError")
    ELSE resolve_two(group, values, label_position(values))

\* groups[key].append(value), a new key going to the end of the dict
groups_append(gs, key, value) ==
    IF \E k \in 1..Len(gs) : gs[k].key = key
    THEN [k \in 1..Len(gs) |->
            IF gs[k].key = key THEN [gs[k] EXCEPT !.values = Append(@, value)] ELSE gs[k]]
    ELSE Append(gs, [key |-> key, values |-> <<value>>])

\* a variant that keeps the blank fragments as entries
RECURSIVE terminated_blank(_)
terminated_blank(fragments) ==
    IF fragments = <<>> THEN <<>>
    ELSE <<strip(fragments[1]) \o <<NL, "END", ":", "VCARD">>>>
         \o terminated_blank(Tail(fragments))

\* content.split("END:VCARD"), each fragment that is not blank stripped and
\* given its "\nEND:VCARD" back
RECURSIVE terminated(_)
terminated(fragments) ==
    IF fragments = <<>> THEN <<>>
    ELSE (IF strip(fragments[1]) # <<>>
          THEN <<strip(fragments[1]) \o <<NL, "END", ":", "VCARD">>>> ELSE <<>>)
         \o terminated(Tail(fragments))

split_entries(text) == terminated(split(text, <<"END", ":", "VCARD">>))

-----------------------------------------------------------------------------
(* custom_column_ordering and the header list of the renderers *)

\* the words of the labels in the order of Python's string comparison
WordOrder ==
    <<" (Preferred)", ";", "Address: ", "Apple Watch", "Assistant", "Birthday", "Cabin",
      "Cell", "Date: ", "Department", "Email: ", "Fax: ", "First", "First (Phonetic)",
      "Full", "Home", "IMPP: ", "Is Company", "Last", "Last (Phonetic)", "Maiden", "Main",
      "Middle", "Middle (Phonetic)", "Name", "Name (Phonetic)", "Name: ", "Nickname",
      "Note", "Organization: ", "Other", "Pager", "Phone: ", "Prefix", "Relationship: ",
      "Social: ", "Suffix", "Title", "Twitter", "URL: ", "Unknown", "Work", "iPhone",
      "type">>

rank(word) == CHOOSE k \in 1..Len(WordOrder) : WordOrder[k] = word

\* a < b on str: word by word, which is exact for the labels parse_vcard saves
RECURSIVE before(_, _)
before(a, b) ==
    IF b = <<>> THEN FALSE
    ELSE IF a = <<>> THEN TRUE
    ELSE IF Head(a) = Head(b) THEN before(Tail(a), Tail(b))
    ELSE rank(Head(a)) < rank(Head(b))

\* sorted(set(...)): each element at the place its number of predecessors gives
sorted(S) ==
    [k \in 1..Cardinality(S) |->
        CHOOSE x \in S : Cardinality({y \in S : before(y, x)}) = k - 1]

\* set(label for sublist in save for label, _ in sublist)
labels_of(save_list) ==
    UNION {{save_list[e][k][1] : k \in 1..Len(save_list[e])} : e \in 1..Len(save_list)}

in(x, list) == \E k \in 1..Len(list) : list[k] = x

field_order ==
    << <<"Is Company">>,
       <<"Organization: ", "Name">>,
       <<"Organization: ", "Name (Phonetic)">>,
       <<"Organization: ", "Department">>,
       <<"Title">>,
       <<"Name: ", "Full">>,
       <<"Name: ", "Prefix">>,
       <<"Name: ", "First">>,
       <<"Name: ", "Middle">>,
       <<"Name: ", "Last">>,
       <<"Name: ", "Maiden">>,
       <<"Name: ", "Suffix">>,
       <<"Name: ", "First (Phonetic)">>,
       <<"Name: ", "Middle (Phonetic)">>,
       <<"Name: ", "Last (Phonetic)">>,
       <<"Nickname">>,
       <<"Phone: ", "iPhone">>,
       <<"Phone: ", "iPhone", " (Preferred)">>,
       <<"Phone: ", "Cell">>,
       <<"Phone: ", "Cell", " (Preferred)">>,
       <<"Phone: ", "Work">>,
       <<"Phone: ", "Work", " (Preferred)">>,
       <<"Phone: ", "Home">>,
       <<"Phone: ", "Home", " (Preferred)">> >>

field_order2 ==
    << <<"Email: ", "Work">>,
       <<"Email: ", "Work", " (Preferred)">>,
       <<"Email: ", "Home">>,
       <<"Email: ", "Home", " (Preferred)">> >>

\* the first words of the labels that start with "Phone", "Pager", "Fax"
PhonePrefixes == <<"Phone: ", "Pager", "Fax: ">>

\* the first words of the labels that start with "Email", "Address", "Date",
\* "Relationship"
OtherPrefixes == <<"Email: ", "Address: ", "Date: ", "Relationship: ">>

\* [field for field in unique_headers if field.startswith(prefix)]
RECURSIVE with_prefix(_, _)
with_prefix(list, first) ==
    IF list = <<>> THEN <<>>
    ELSE (IF Head(list) # <<>> /\ Head(Head(list)) = first THEN <<Head(list)>> ELSE <<>>)
         \o with_prefix(Tail(list), first)

\* if selected_field not in field_order: field_order.append(selected_field)
RECURSIVE append_new(_, _)
append_new(order, selected) ==
    IF selected = <<>> THEN order
    ELSE append_new(IF in(Head(selected), order) THEN order
                    ELSE Append(order, Head(selected)), Tail(selected))

\* the first pair of loops, over the prefixes "Phone", "Pager", "Fax"
RECURSIVE phone_fields(_, _, _)
phone_fields(order, prefixes, unique_headers) ==
    IF prefixes = <<>> THEN order
    ELSE phone_fields(append_new(order, with_prefix(unique_headers, Head(prefixes))),
                      Tail(prefixes), unique_headers)

\* if selected_field not in field_order2: field_order.append(selected_field)
RECURSIVE append_unlisted(_, _)
append_unlisted(order, selected) ==
    IF selected = <<>> THEN order
    ELSE append_unlisted(IF in(Head(selected), field_order2) THEN order
                         ELSE Append(order, Head(selected)), Tail(selected))

\* the second pair of loops, over "Email", "Address", "Date", "Relationship"
RECURSIVE other_fields(_, _, _)
other_fields(order, prefixes, unique_headers) ==
    IF prefixes = <<>> THEN order
    ELSE other_fields(append_unlisted(order, with_prefix(unique_headers, Head(prefixes))),
                      Tail(prefixes), unique_headers)

\* a variant that leaves the list as it is
remove_nothing(list, field) == list

\* list.remove(field): the first occurrence goes
RECURSIVE remove(_, _)
remove(list, field) ==
    IF list = <<>> THEN <<>>
    ELSE IF Head(list) = field THEN Tail(list)
    ELSE <<Head(list)>> \o remove(Tail(list), field)

\* the last loop, then headers.extend(unique_headers)
RECURSIVE arranged(_, _, _)
arranged(order, unique_headers, placed) ==
    IF order = <<>> THEN placed \o unique_headers
    ELSE IF in(Head(order), unique_headers)
         THEN arranged(Tail(order), remove(unique_headers, Head(order)),
                       Append(placed, Head(order)))
    ELSE arranged(Tail(order), unique_headers, placed)

custom_column_ordering(unique_headers) ==
    IF ~reorder_enabled THEN unique_headers
    ELSE arranged(other_fields(phone_fields(field_order, PhonePrefixes, unique_headers)
                               \o field_order2,
                               OtherPrefixes, unique_headers),
                  unique_headers, <<>>)

\* headers = custom_column_ordering(sorted(set(...))) in a renderer that runs
headers_of(save_list, ran) ==
    IF ran = {} THEN <<>> ELSE custom_column_ordering(sorted(labels_of(save_list)))

-----------------------------------------------------------------------------
(* The program: main() and parse_vcard() as steps *)

Exit(code, e) ==
    /\ pc' = "exit"
    /\ exit_code' = code
    /\ exc' = e

\* the tests of the input path
MainCheckInput ==
    /\ pc = "check_input"
    /\ IF ~args.isfile \/ ~args.vcf
       THEN Exit(1, "none")
       ELSE pc' = "check_mode" /\ UNCHANGED <<exit_code, exc>>
    /\ UNCHANGED <<args, preferred, phone_enabled, address_enabled, reorder_enabled,
                   content, entries, index, fields, fi, skip_photo, groups, gi, save,
                   unknown_name, unknown, output, written, headers>>

\* parser.error() prints the usage and exits with status 2
MainCheckMode ==
    /\ pc = "check_mode"
    /\ IF ~(args.csv \/ args.json \/ args.display \/ args.unknown)
       THEN Exit(2, "none")
       ELSE pc' = "configure" /\ UNCHANGED <<exit_code, exc>>
    /\ UNCHANGED <<args, preferred, phone_enabled, address_enabled, reorder_enabled,
                   content, entries, index, fields, fi, skip_photo, groups, gi, save,
                   unknown_name, unknown, output, written, headers>>

\* the feature toggles, the output name, the overwrite test
MainConfigure ==
    /\ pc = "configure"
    /\ address_enabled' = args.address
    /\ phone_enabled' = args.phone
    /\ preferred' = args.preferred
    /\ IF \/ args.csv /\ args.csv_exists /\ ~args.overwrite
          \/ args.json /\ args.json_exists /\ ~args.overwrite
       THEN Exit(1, "none") /\ UNCHANGED reorder_enabled
       ELSE /\ reorder_enabled' = args.reorder
            /\ pc' = "read"
            /\ UNCHANGED <<exit_code, exc>>
    /\ UNCHANGED <<args, content, entries, index, fields, fi, skip_photo, groups, gi,
                   save, unknown_name, unknown, output, written, headers>>

\* parse_vcard: the file is read and cut into entries
ParseRead ==
    /\ pc = "read"
    /\ IF ~args.readable
       THEN Exit(1, "none") /\ UNCHANGED <<entries, index, output>>
       ELSE /\ entries' = split_entries(content)
            /\ index' = 0
            /\ output' = <<>>
            /\ pc' = "entry"
            /\ UNCHANGED <<exit_code, exc>>
    /\ UNCHANGED <<args, preferred, phone_enabled, address_enabled, reorder_enabled,
                   content, fields, fi, skip_photo, groups, gi, save, unknown_name,
                   unknown, written, headers>>

\* parse_vcard: the next entry is taken, or the entries are exhausted
EntryBegin ==
    /\ pc = "entry"
    /\ IF index < Len(entries)
       THEN /\ fields' = splitlines(entries[index + 1])
            /\ fi' = 1
            /\ groups' = <<>>
            /\ gi' = 1
            /\ skip_photo' = FALSE
            /\ save' = <<>>
            /\ unknown_name' = <<>>
            /\ unknown' = <<>>
            /\ pc' = "line"
       ELSE /\ pc' = "return"
            /\ UNCHANGED <<fields, fi, groups, gi, skip_photo, save, unknown_name, unknown>>
    /\ UNCHANGED <<args, exit_code, exc, preferred, phone_enabled, address_enabled,
                   reorder_enabled, content, entries, index, output, written, headers>>

\* the PHOTO; test of a raw line
photo_start(raw) == startswith(strip(raw), <<"PHOTO", ";">>)

\* a variant of the continuation test that takes a tab for a fold as well
photo_continuation_blank(raw) == raw # <<>> /\ Head(raw) \in {" ", "\t"}

\* the continuation test of a raw line under an active PHOTO skip
photo_continuation(raw) == startswith(raw, <<" ">>)

\* where the line loop goes after the line at position fi
after_line == IF fi < Len(fields) THEN "line" ELSE "group"

\* a rule or the resolver has run: its pairs, its report, its exception
Applied(r, next) ==
    /\ save' = save \o r.pairs
    /\ unknown' = IF args.unknown THEN unknown \o r.unknown ELSE unknown
    /\ IF r.exc # "none"
       THEN Exit(1, r.exc)
       ELSE pc' = next /\ UNCHANGED <<exit_code, exc>>

\* groups after the stripped line: a grouped line is appended to its group
groups_after(gs, match) ==
    IF match = <<>> THEN gs ELSE groups_append(gs, int(match[1]), match[2])

\* the stripped line goes through the rules
Classified(field) ==
    /\ Applied(emit(field), after_line)
    /\ groups' = groups_after(groups, IF classify(field) = "group"
                                      THEN vcard_grouped_field(field) ELSE <<>>)
    /\ unknown_name' = IF args.unknown /\ startswith(field, <<"FN", ":">>)
                       THEN <<"Name (Full): ">> \o value_of(field)
                       ELSE unknown_name

\* the body of "for field in fields" on the raw line
Line(raw) ==
    IF photo_start(raw)
    THEN /\ skip_photo' = TRUE
         /\ pc' = after_line
         /\ UNCHANGED <<groups, save, unknown_name, unknown, exit_code, exc>>
    ELSE IF skip_photo /\ photo_continuation(raw)
    THEN /\ pc' = after_line
         /\ UNCHANGED <<skip_photo, groups, save, unknown_name, unknown, exit_code, exc>>
    ELSE /\ skip_photo' = FALSE
         /\ Classified(strip(raw))

\* parse_vcard: one pass of "for field in fields"
LineStep ==
    /\ pc = "line"
    /\ fi <= Len(fields)
    /\ Line(fields[fi])
    /\ fi' = fi + 1
    /\ UNCHANGED <<args, preferred, phone_enabled, address_enabled, reorder_enabled,
                   content, entries, index, fields, gi, output, written, headers>>

\* parse_vcard: one pass of "for group in groups"
GroupStep ==
    /\ pc = "group"
    /\ gi <= Len(groups)
    /\ Applied(resolve(groups[gi].key, groups[gi].values), "group")
    /\ gi' = gi + 1
    /\ UNCHANGED <<args, preferred, phone_enabled, address_enabled, reorder_enabled,
                   content, entries, index, fields, fi, skip_photo, groups,
                   unknown_name, output, written, headers>>

\* parse_vcard: output.append(save)
EntryEnd ==
    /\ pc = "group"
    /\ gi > Len(groups)
    /\ output' = Append(output, save)
    /\ index' = index + 1
    /\ pc' = "entry"
    /\ UNCHANGED <<args, exit_code, exc, preferred, phone_enabled, address_enabled,
                   reorder_enabled, content, entries, fields, fi, skip_photo, groups,
                   gi, save, unknown_name, unknown, written, headers>>

\* a variant of the return that goes on to the renderers in the unknown-only mode
ParseReturnRendering ==
    /\ pc = "return"
    /\ pc' = "render"
    /\ UNCHANGED <<args, exit_code, exc, preferred, phone_enabled, address_enabled,
                   reorder_enabled, content, entries, index, fields, fi, skip_photo,
                   groups, gi, save, unknown_name, unknown, output, written, headers>>

\* parse_vcard returns; main() exits in the unknown-only mode
ParseReturn ==
    /\ pc = "return"
    /\ IF args.unknown
       THEN Exit(1, "none")
       ELSE pc' = "render" /\ UNCHANGED <<exit_code, exc>>
    /\ UNCHANGED <<args, preferred, phone_enabled, address_enabled, reorder_enabled,
                   content, entries, index, fields, fi, skip_photo, groups, gi, save,
                   unknown_name, unknown, output, written, headers>>

\* the renderers asked for run, save_to_csv and save_to_json only on a record
\* list that is not empty
MainRender ==
    /\ pc = "render"
    /\ written' = {m \in {"csv", "json"} : args[m] /\ output # <<>>}
                  \cup {m \in {"display"} : args[m]}
    /\ headers' = headers_of(output, {m \in {"csv", "json"} : args[m] /\ output # <<>>}
                                     \cup {m \in {"display"} : args[m]})
    /\ Exit(0, "none")
    /\ UNCHANGED <<args, preferred, phone_enabled, address_enabled, reorder_enabled,
                   content, entries, index, fields, fi, skip_photo, groups, gi, save,
                   unknown_name, unknown, output>>

Next ==
    \/ MainCheckInput
    \/ MainCheckMode
    \/ MainConfigure
    \/ ParseRead
    \/ EntryBegin
    \/ LineStep
    \/ GroupStep
    \/ EntryEnd
    \/ ParseReturn
    \/ MainRender

-----------------------------------------------------------------------------
(* The inputs: command lines and vCard files *)

MaxPhotoLines == 3

MaxGroupLines == 3

MaxTelTypes == 2

\* the sequences of at most n elements of S
UpTo(S, n) == UNION {[1..k -> S] : k \in 0..n}

\* a file of one entry with these lines
card(lines) ==
    join(<<<<"BEGIN", ":", "VCARD">>>> \o lines \o <<<<"END", ":", "VCARD">>>>, <<NL>>)
    \o <<NL>>

item(n, rest) == <<"item", n, ".">> \o rest

PhoneNumber == <<"555", "-", "000", "-", "1111">>

Street == <<";", ";", "1 Main St", ";", "City">>

WrappedLabel == <<"X-ABLabel", ":", "_$!<", "Assistant", ">!$_">>

PlainLabel == <<"X-ABLabel", ":", "Cabin">>

TelCell == <<"TEL", ";", "type", "=", "CELL", ":", "(", "555", ")", " ", "123", "-", "4567">>

TelPref == <<"TEL", ";", "type", "=", "CELL", ";", "type", "=", "pref", ":",
             "555", "-", "123", "-", "4567">>

AdrPref == <<"ADR", ";", "type", "=", "HOME", ";", "type", "=", "pref", ":">> \o Street

PhotoLine == <<"PHOTO", ";", "ENCODING", "=", "b", ":", "AAAA">>

UnknownLine == <<"FOO", ":", "bar">>

\* well-formed lines, one for every rule of the line loop
GoodLines ==
    { <<"VERSION", ":", "3.0">>,
      <<"PRODID", ":", "x">>,
      <<"X-ABShowAs", ":", "COMPANY">>,
      <<"N", ":", "Doe", ";", "John", ";", ";", ";">>,
      <<"N", ":", "Doe", ";", "John", ";", "Q", ";", "Dr", ";", "Jr">>,
      <<"FN", ":", "John", " ", "Doe">>,
      <<"NICKNAME", ":", "JD">>,
      <<"X-MAIDENNAME", ":", "Roe">>,
      <<"X-PHONETIC-FIRST-NAME", ":", "Jon">>,
      <<"ORG", ":", "Acme", ";", "Sales">>,
      <<"ORG", ":", "Acme", ";">>,
      <<"X-PHONETIC-ORG", ":", "Akme">>,
      <<"TITLE", ":", "Boss">>,
      <<"EMAIL", ";", "type", "=", "INTERNET", ";", "type", "=", "WORK", ";",
        "type", "=", "pref", ":", "a@b.c">>,
      <<"EMAIL", ";", "type", "=", "INTERNET", ";", "type", "=", "HOME", ":", "a@b.c">>,
      TelCell,
      TelPref,
      <<"TEL", ";", "type", "=", "CELL", ":", "123", ";", "type", "=", "pref", ":", "4567">>,
      AdrPref,
      <<"ADR", ";", "type", "=", "WORK", ":">> \o Street,
      <<"X-SOCIALPROFILE", ";", "type", "=", "twitter", ":", "x.com/jd">>,
      <<"NOTE", ":", "hi">>,
      <<"URL", ";", "type", "=", "WORK", ":", "ex.com">>,
      <<"URL", ";", "type", "=", "WORK", ";", "type", "=", "pref", ":", "ex.com">>,
      <<"BDAY", ":", "1990", "-", "05", "-", "12">>,
      <<"BDAY", ";", "X-APPLE-OMIT-YEAR", "=", "1604", ":", "1604", "-", "05", "-", "12">>,
      PhotoLine }

\* lines that no rule takes, blank lines among them
UnknownLines ==
    { UnknownLine,
      <<" ">> \o UnknownLine \o <<" ">>,
      <<"\t", "X-ABShowAs", ":", "PERSON">>,
      <<"item", "x", ".", "TEL", ":">> \o PhoneNumber,
      <<>>,
      <<" ", " ">> }

\* lines that a rule takes by their prefix and that lack what the rule reads
MalformedLines ==
    { <<"N", ":", "Doe">>,
      <<"N", ":", "Doe", ";", "John">>,
      <<"ORG", ":", "Acme">>,
      <<"ADR", ";", "foo">>,
      <<"ADR", ";", "type", "=", "HOME">>,
      <<"URL", ";", "x">>,
      <<"URL", ";", "type", "=", "WORK">>,
      <<"X-SOCIALPROFILE", ";", "x", ":", "y">>,
      <<"X-SOCIALPROFILE", ";", "type", "=", "twitter">>,
      <<"EMAIL", ";", "type", "=", "WORK">>,
      <<"EMAIL", ";", "a@b.c">>,
      <<"TEL", ";", "type", "=", "CELL">>,
      <<"TEL", ";", "555">> }

Lines == GoodLines \cup UnknownLines \cup MalformedLines

TelTypes == {"PAGER", "FAX", "APPLEWATCH", "IPHONE", "CELL", "HOME", "WORK", "OTHER",
             "MAIN", "VOICE", "pref"}

\* TEL;type=T1;...;type=Tn:number
tel_line(types) ==
    <<"TEL">> \o flatten([k \in 1..Len(types) |-> <<";", "type", "=", types[k]>>])
    \o <<":">> \o PhoneNumber

PhotoLines ==
    { PhotoLine,
      <<" ", "BBBB">>,
      <<"\t", "CCCC">>,
      <<" ">> \o UnknownLine,
      UnknownLine,
      TelPref,
      <<>> }

GroupLines ==
    { item("1", WrappedLabel),
      item("1", <<"TEL", ":">> \o PhoneNumber),
      item("1", UnknownLine),
      item("01", <<"X-CUSTOM", ":", "baz">>),
      item("2", PlainLabel),
      item("2", <<"X-ABADR", ":", "us">>),
      item("2", AdrPref) }

LabelValues == {WrappedLabel, PlainLabel}

DataValues ==
    { <<"TEL", ":">> \o PhoneNumber,
      <<"TEL", ";", "type", "=", "pref", ":">> \o PhoneNumber,
      <<"TEL", ";", "type", "=", "pref">>,
      <<"TEL", ":">>,
      <<"EMAIL", ";", "type", "=", "INTERNET", ";", "type", "=", "pref", ":", "a@b.c">>,
      <<"EMAIL", ";", "type", "=", "INTERNET", ":", "a@b.c">>,
      <<"EMAIL", ";", "a@b.c">>,
      AdrPref,
      <<"ADR", ":">> \o Street,
      <<"URL", ";", "type", "=", "pref", ":", "ex.com">>,
      <<"URL", ":", "ex.com">>,
      <<"IMPP", ";", "X-SERVICE-TYPE", "=", "AIM", ";", "type", "=", "pref", ":",
        "aim", ":", "jd">>,
      <<"IMPP", ";", "x", ":", "y">>,
      <<"X-AIM", ";", "type", "=", "HOME", ":", "jd">>,
      <<"X-ABDATE", ":", "1990", "-", "05", "-", "12">>,
      <<"X-ABDATE", ";", "X-APPLE-OMIT-YEAR", "=", "1604", ":", "1604", "-", "05", "-", "12">>,
      <<"X-ABDATE", ";", "foo">>,
      <<"X-ABRELATEDNAMES", ":", "Jane">>,
      <<"X-CUSTOM", ":", "baz">>,
      <<"X-ABADR", ":", "us">> }

\* a group of two lines, in both orders
GroupPairs ==
    UNION {{<<item("1", l), item("1", d)>>, <<item("1", d), item("1", l)>>} :
              <<l, d>> \in LabelValues \X DataValues}

\* python3 vCardConvert.py contacts.vcf --csv --display --preferred --address --phone
DefaultArgs ==
    [isfile |-> TRUE, vcf |-> TRUE, readable |-> TRUE, csv |-> TRUE, json |-> FALSE,
     display |-> TRUE, unknown |-> FALSE, overwrite |-> FALSE, csv_exists |-> FALSE,
     json_exists |-> FALSE, preferred |-> TRUE, reorder |-> FALSE, address |-> TRUE,
     phone |-> TRUE]

ParseArgs ==
    {[DefaultArgs EXCEPT !.preferred = p, !.unknown = u] : p \in BOOLEAN, u \in BOOLEAN}

FormatArgs ==
    {[DefaultArgs EXCEPT !.phone = p, !.address = a] : p \in BOOLEAN, a \in BOOLEAN}

\* every command line over a file that parses, one that raises and an empty one
MainArgs ==
    {[DefaultArgs EXCEPT !.isfile = b[1], !.vcf = b[2], !.readable = b[3], !.csv = b[4],
                         !.json = b[5], !.display = b[6], !.unknown = b[7],
                         !.overwrite = b[8], !.csv_exists = b[9], !.json_exists = b[10]] :
        b \in [1..10 -> BOOLEAN]}

MainContents == {card(<<TelPref>>), card(<<<<"N", ":", "Doe">>>>), <<NL>>}

MaxEntries == 3

\* the line lists of the entries of a file of several entries
EntryLines ==
    { <<>>,
      <<<<"VERSION", ":", "3.0">>>>,
      <<<<"FN", ":", "John", " ", "Doe">>, TelPref>>,
      <<UnknownLine>> }

\* what may stand between two entries and after the last one
Gaps == {<<>>, <<" ", NL, NL>>}

\* a file of these entries, the gap after each of them
file(cards, gap) == flatten([k \in 1..Len(cards) |-> card(cards[k]) \o gap])

Files == {file(cards, gap) : cards \in UpTo(EntryLines, MaxEntries), gap \in Gaps}

MaxColumns == 3

\* line lists that save pairs under labels of every kind of the column order
ColumnLines ==
    << <<<<"X-ABShowAs", ":", "COMPANY">>>>,
       <<<<"FN", ":", "John", " ", "Doe">>>>,
       <<<<"NICKNAME", ":", "JD">>>>,
       <<<<"ORG", ":", "Acme", ";", "Sales">>>>,
       <<<<"TITLE", ":", "Boss">>>>,
       <<TelPref>>,
       <<tel_line(<<"PAGER">>)>>,
       <<tel_line(<<"FAX", "HOME">>)>>,
       <<tel_line(<<"OTHER">>)>>,
       <<<<"EMAIL", ";", "type", "=", "INTERNET", ";", "type", "=", "WORK", ";",
           "type", "=", "pref", ":", "a@b.c">>>>,
       <<AdrPref>>,
       <<<<"BDAY", ":", "1990", "-", "05", "-", "12">>>>,
       <<<<"NOTE", ":", "hi">>>>,
       <<UnknownLine>>,
       <<item("1", PlainLabel), item("1", <<"X-ABRELATEDNAMES", ":", "Jane">>)>> >>

\* the elements of a sequence at the positions of a set, in ascending order
RECURSIVE chosen(_, _, _)
chosen(seq, positions, k) ==
    IF k > Len(seq) THEN <<>>
    ELSE (IF k \in positions THEN <<seq[k]>> ELSE <<>>) \o chosen(seq, positions, k + 1)

ColumnFiles ==
    {card(flatten(chosen(ColumnLines, I, 1))) :
        I \in {J \in SUBSET (1..Len(ColumnLines)) : Cardinality(J) <= MaxColumns}}

RenderArgs == {[DefaultArgs EXCEPT !.reorder = r] : r \in BOOLEAN}

Inputs ==
    ({card(<<l>>) : l \in Lines} \X ParseArgs)
    \cup ({card(<<tel_line(ts)>>) : ts \in UpTo(TelTypes, MaxTelTypes) \ {<<>>}} \X ParseArgs)
    \cup ({card(ls) : ls \in UpTo(PhotoLines, MaxPhotoLines)} \X {DefaultArgs})
    \cup ({card(ls) : ls \in UpTo(GroupLines, MaxGroupLines)} \X ParseArgs)
    \cup ({card(ls) : ls \in GroupPairs} \X ParseArgs)
    \cup ({card(<<l>>) : l \in {TelCell, AdrPref}} \X FormatArgs)
    \cup (MainContents \X MainArgs)
    \cup (Files \X {DefaultArgs})
    \cup (ColumnFiles \X RenderArgs)

\* the process starts: the function attributes are not set yet
Init ==
    /\ \E input \in Inputs : content = input[1] /\ args = input[2]
    /\ pc = "check_input"
    /\ exit_code = -1
    /\ exc = "none"
    /\ preferred = FALSE
    /\ phone_enabled = FALSE
    /\ address_enabled = FALSE
    /\ reorder_enabled = FALSE
    /\ entries = <<>>
    /\ index = 0
    /\ fields = <<>>
    /\ fi = 1
    /\ skip_photo = FALSE
    /\ groups = <<>>
    /\ gi = 1
    /\ save = <<>>
    /\ unknown_name = <<>>
    /\ unknown = <<>>
    /\ output = <<>>
    /\ written = {}
    /\ headers = <<>>

Spec == Init /\ [][Next]_vars

-----------------------------------------------------------------------------
(* The claims *)

\* the line loop is at a line that PHOTO skipping does not suppress
AtTakenLine ==
    /\ pc = "line"
    /\ ~startswith(strip(fields[fi]), <<"PHOTO", ";">>)
    /\ ~(skip_photo /\ startswith(fields[fi], <<" ">>))

\* the prefixes by which the rules of the line loop take a line
RulePrefixes ==
    IgnoredPrefixes
    \cup {SimplePrefixes[k] : k \in 1..9}
    \cup {<<"N", ":">>, <<"ORG", ":">>, <<"EMAIL", ";">>, <<"TEL", ";">>, <<"ADR", ";">>,
          <<"X-SOCIALPROFILE", ";">>, <<"URL", ";">>, <<"BDAY">>}

\* no rule takes the stripped line
Unmatched(field) ==
    /\ field # <<"X-ABShowAs", ":", "COMPANY">>
    /\ \A prefix \in RulePrefixes : ~startswith(field, prefix)
    /\ vcard_grouped_field(field) = <<>>

\* the pair of an unknown line or group
UnknownPair(text) == <<<<"Unknown">>, text>>

\* C1: a line that PHOTO skipping does not suppress and that no rule takes
\* (no ignored marker, no named prefix, no item<N>. pattern) appends exactly
\* the pair ("Unknown", trimmed line) to the pair list of its entry.
C1_UnknownLineKept ==
    [][AtTakenLine /\ Unmatched(strip(fields[fi]))
       => save' = Append(save, UnknownPair(strip(fields[fi])))]_vars

\* C1: the line " FOO:bar " has been taken and its trimmed text saved
C1_Witness ==
    /\ fi = 3
    /\ fields[2] = <<" ">> \o UnknownLine
    /\ save = <<UnknownPair(UnknownLine)>>

\* C2: a line that a rule takes by its prefix and that lacks the parameter or
\* the delimiter the rule reads never aborts the run and appends the pair
\* ("Unknown", line).
C2_MalformedLineDegrades ==
    [][AtTakenLine /\ strip(fields[fi]) \in MalformedLines
       => exc' = "none" /\ save' = Append(save, UnknownPair(strip(fields[fi])))]_vars

\* C3: a group that collected fewer or more than two values is not fatal and
\* appends the pair ("Unknown", "Item Group: N, Values: ...") of its values.
C3_OddGroupDegrades ==
    [][pc = "group" /\ gi <= Len(groups) /\ Len(groups[gi].values) # 2
       => /\ exc' = "none"
          /\ save' = Append(save, UnknownPair(item_group_text(groups[gi].key,
                                                              groups[gi].values)))]_vars

\* the line loop takes a PHOTO; line, or a line that starts with a space
\* while the skip flag is set: the flag is set afterwards and no pair is saved
PhotoBlockSilent ==
    pc = "line" /\ ~AtTakenLine => skip_photo' /\ save' = save

\* the line clears the flag and goes through the rule table
PhotoBlockLeft ==
    /\ ~skip_photo'
    /\ save' = save \o emit(strip(fields[fi])).pairs
    /\ strip(fields[fi]) = TelPref => Len(save') - Len(save) \in {1, 2}

\* C4: a PHOTO; line and every following line that starts with a space save
\* no pair; the first following line that does not start with a space and is
\* not a PHOTO; line itself clears the skip flag and goes through the rule
\* table, a TEL; line saving its one or two pairs.
C4_PhotoSkip ==
    [][/\ PhotoBlockSilent
       /\ AtTakenLine /\ skip_photo => PhotoBlockLeft]_vars

\* C4: a photo block of two lines, then a TEL; line that saved its two pairs
C4_Witness ==
    /\ fi = 5
    /\ fields[2] = PhotoLine
    /\ fields[3] = <<" ", "BBBB">>
    /\ fields[4] = TelPref
    /\ ~skip_photo
    /\ Len(save) = 2

\* C4 as stated: the first following line that does not start with a space,
\* whatever it is, clears the skip flag and goes through the rule table.
C4_AnyUnindentedLineLeaves ==
    [][pc = "line" /\ skip_photo /\ ~startswith(fields[fi], <<" ">>)
       => PhotoBlockLeft]_vars

\* the type words of a TEL; line, capitalized, Voice left out
TypesOf(field) ==
    {capitalize1(field[k + 2]) :
        k \in {j \in 1..(Len(field) - 2) : field[j] = "type" /\ field[j + 1] = "="}}
    \ {"Voice"}

\* the first candidate that is among the labels, "" when none is
RECURSIVE FirstOf(_, _)
FirstOf(cands, labels) ==
    IF cands = <<>> THEN ""
    ELSE IF Head(cands) \in labels THEN Head(cands) ELSE FirstOf(Tail(cands), labels)

Prefixed(prefix, word) == IF word = "" THEN <<>> ELSE <<prefix, word>>

\* the label by fixed priority
ByPriority(labels) ==
    IF "Pager" \in labels THEN <<"Pager">>
    ELSE IF "Fax" \in labels THEN Prefixed("Fax: ", FirstOf(<<"Home", "Work", "Other">>, labels))
    ELSE IF "Applewatch" \in labels THEN <<"Phone: ", "Apple Watch">>
    ELSE IF "Iphone" \in labels THEN <<"Phone: ", "iPhone">>
    ELSE IF "Cell" \in labels THEN <<"Phone: ", "Cell">>
    ELSE Prefixed("Phone: ", FirstOf(<<"Home", "Work", "Other", "Main">>, labels))

\* C5: the label of a TEL; line is chosen from its types by fixed priority:
\* Pager, Fax (Home, Work, Other), Apple Watch, iPhone, Cell, else Home before
\* Work before Other before Main.
C5_TelLabelByPriority ==
    [][AtTakenLine /\ startswith(strip(fields[fi]), <<"TEL", ";">>) /\ Len(save') > Len(save)
       => save'[Len(save) + 1][1] = ByPriority(TypesOf(strip(fields[fi])))]_vars

\* the resolver is at a group
AtGroup == pc = "group" /\ gi <= Len(groups)

IsLabel(value) == startswith(value, <<"X-ABLabel", ":">>)

\* two values of which exactly one starts with X-ABLabel:
OneLabel(values) == Len(values) = 2 /\ IsLabel(values[1]) # IsLabel(values[2])

\* of two such values, the one that is not the label
DataOf(values) == IF IsLabel(values[1]) THEN values[2] ELSE values[1]

\* the text of the label: what follows the prefix, a wrapper replaced by its inside
LabelOf(values) ==
    LET text == Tail(Tail(IF IsLabel(values[1]) THEN values[1] ELSE values[2]))
    IN  IF Len(text) >= 3 /\ text[1] = "_$!<" /\ text[Len(text)] = ">!$_"
        THEN SubSeq(text, 2, Len(text) - 1) ELSE text

\* the parameters of a data line, before the first colon
ParametersOf(data) == split1(data, <<":">>)[1]

\* a TEL, ADR, URL or IMPP data line whose parameters end with pref and that
\* has a value
PreferredData(data) ==
    /\ Head(data) \in {"TEL", "ADR", "URL", "IMPP"}
    /\ endswith(ParametersOf(data), <<"pref">>)
    /\ Len(split1(data, <<":">>)) = 2

KindOf(data) ==
    CASE Head(data) = "TEL" -> "Phone: "
      [] Head(data) = "ADR" -> "Address: "
      [] Head(data) = "URL" -> "URL: "
      [] OTHER -> "IMPP: "

\* C6: with preferred-duplication enabled, a resolved group whose data line is
\* TEL, ADR, URL or IMPP with a parameter that ends with pref saves the pair
\* ("<Kind>: {label}", value) and a copy labelled "<Kind>: {label} (Preferred)".
C6_GroupPreferredCopy ==
    [][/\ AtGroup /\ preferred
       /\ OneLabel(groups[gi].values) /\ PreferredData(DataOf(groups[gi].values))
       => /\ Len(save') = Len(save) + 2
          /\ save'[Len(save) + 1][1] =
                 <<KindOf(DataOf(groups[gi].values))>> \o LabelOf(groups[gi].values)
          /\ save'[Len(save) + 2] =
                 <<Preferred(save'[Len(save) + 1][1]), save'[Len(save) + 1][2]>>]_vars

\* C7: a group of two values, neither of which starts with X-ABLabel: or with
\* X-ABADR:, saves exactly one pair ("Unknown", "Item Group: N, Values: ...").
C7_UnresolvableGroupOnce ==
    [][/\ AtGroup /\ Len(groups[gi].values) = 2
       /\ \A k \in 1..2 : /\ ~IsLabel(groups[gi].values[k])
                          /\ ~startswith(groups[gi].values[k], <<"X-ABADR", ":">>)
       => save' = Append(save, UnknownPair(item_group_text(groups[gi].key,
                                                           groups[gi].values)))]_vars

\* the number of pairs the step saved
Saved == Len(save') - Len(save)

\* the parameters of a stripped EMAIL; or TEL; line that carry a value
ValueParameters(field) ==
    {k \in 1..Len(parameters(field)) :
        vcard_comm_type_compound(strip(parameters(field)[k])) # <<>>}

\* the most pairs a line may save when it is classified
Allowance(field) ==
    IF \E prefix \in IgnoredPrefixes : startswith(field, prefix) THEN 0
    ELSE IF vcard_grouped_field(field) # <<>> THEN 0
    ELSE IF startswith(field, <<"N", ":">>) THEN 5
    ELSE IF startswith(field, <<"ORG", ":">>) THEN 2
    ELSE IF startswith(field, <<"EMAIL", ";">>) \/ startswith(field, <<"TEL", ";">>)
         THEN Cardinality(ValueParameters(field)) * (IF preferred THEN 2 ELSE 1)
    ELSE IF startswith(field, <<"ADR", ";">>) THEN (IF preferred THEN 2 ELSE 1)
    ELSE 1

\* C8: a line saves no pair when it is an ignored line, a line of a photo
\* block or an item line, and at most one pair otherwise, but for N: (one
\* pair for each of its five components that is not empty), ORG: (at most
\* two), EMAIL; and TEL; (one pair for each type=X:value parameter, and a
\* "(Preferred)" copy only with preferred-duplication enabled) and ADR; (a
\* "(Preferred)" copy only with preferred-duplication enabled); a group
\* saves at most two pairs when it is resolved.
C8_PairsPerLine ==
    [][/\ pc = "line" /\ ~AtTakenLine => Saved = 0
       /\ AtTakenLine => Saved \in 0..Allowance(strip(fields[fi]))
       /\ AtGroup => Saved \in 0..2]_vars

\* C8: a TEL; line has saved its value and the "(Preferred)" copy
C8_Witness ==
    /\ preferred
    /\ fi = 3
    /\ fields[2] = TelPref
    /\ Len(save) = 2
    /\ save[2][1] = Preferred(save[1][1])

\* C8 as stated: a line saves at most one pair, but for a TEL; line, which
\* may save two with preferred-duplication enabled; a group saves at most one
\* pair for each of its lines, but for a grouped email, which may save two
\* with preferred-duplication enabled.
C8_OnePairPerLine ==
    [][/\ pc = "line"
          => \/ Saved <= 1
             \/ /\ startswith(strip(fields[fi]), <<"TEL", ";">>)
                /\ preferred /\ Saved = 2
       /\ AtGroup
          => \/ Saved <= 1
             \/ /\ \E k \in 1..Len(groups[gi].values) :
                       startswith(groups[gi].values[k], <<"EMAIL", ";">>)
                /\ preferred /\ Saved = 2]_vars

NoMode == ~(args.csv \/ args.json \/ args.display \/ args.unknown)

BadInput == ~args.isfile \/ ~args.vcf

Conflict ==
    \/ args.csv /\ args.csv_exists /\ ~args.overwrite
    \/ args.json /\ args.json_exists /\ ~args.overwrite

\* C9: the program ends with exit status 1 when the input file is missing or
\* does not end in .vcf, when a requested output file exists and --overwrite
\* is not given, and in the unknown-only mode; with a valid input file and no
\* output mode it ends with exit status 2.
C9_ExitStatus ==
    pc = "exit" =>
        /\ BadInput => exit_code = 1
        /\ ~BadInput /\ NoMode => exit_code = 2
        /\ ~NoMode /\ Conflict => exit_code = 1
        /\ args.unknown => exit_code = 1

\* C9: a valid input file and no output mode: the program has ended with status 2
C9_Witness ==
    pc = "exit" /\ ~BadInput /\ NoMode /\ exit_code = 2

\* C9 as stated: exit status 1 in each of the cases, no output mode among them.
C9_AlwaysStatusOne ==
    pc = "exit" /\ (BadInput \/ NoMode \/ Conflict \/ args.unknown) => exit_code = 1

\* the values in the other order of arrival
Swapped(values) == <<values[2], values[1]>>

\* the data line starts with a prefix the resolver dispatches on
Dispatched(data) ==
    \/ startswith(data, <<"EMAIL", ";">>)
    \/ startswith(data, <<"IMPP", ";">>)
    \/ \E word \in {"TEL", "ADR", "URL", "X-ABDATE", "X-ABRELATEDNAMES"} :
           startswith(data, <<word, ":">>) \/ startswith(data, <<word, ";">>)
    \/ data # <<>> /\ Head(data) \in DuplicateServices

\* what the resolver does with the group, from the state it is in
Resolved(values) == resolve(groups[gi].key, values)

\* the outcome of the step is that of the resolver on the values in the other order
AsSwapped ==
    /\ save' = save \o Resolved(Swapped(groups[gi].values)).pairs
    /\ exc' = Resolved(Swapped(groups[gi].values)).exc

\* the group of the wrapped label Assistant and of TEL:555-000-1111
AssistantGroup(values) ==
    values \in {<<WrappedLabel, <<"TEL", ":">> \o PhoneNumber>>,
                <<<<"TEL", ":">> \o PhoneNumber, WrappedLabel>>}

\* C10: for a group of two values of which exactly one starts with X-ABLabel:
\* and the other with a prefix the resolver dispatches on, the outcome does
\* not depend on the order of the two lines; X-ABLabel:_$!<Assistant>!$_ with
\* TEL:555-000-1111 saves ("Phone: Assistant", "555-000-1111") in either order.
C10_OrderIndependent ==
    [][/\ AtGroup /\ OneLabel(groups[gi].values) /\ Dispatched(DataOf(groups[gi].values))
          => AsSwapped
       /\ AtGroup /\ AssistantGroup(groups[gi].values)
          => save' = Append(save, <<<<"Phone: ", "Assistant">>, PhoneNumber>>)]_vars

\* C10: the TEL line arrived first, the wrapped label second, and the pair is saved
C10_Witness ==
    /\ pc = "group"
    /\ gi = 2
    /\ groups[1].values = <<<<"TEL", ":">> \o PhoneNumber, WrappedLabel>>
    /\ save = <<<<<<"Phone: ", "Assistant">>, PhoneNumber>>>>

\* C10 as stated: for every group of two values of which exactly one starts
\* with X-ABLabel:, the outcome does not depend on the order of the two lines.
C10_AnyDataOrderIndependent ==
    [][AtGroup /\ OneLabel(groups[gi].values) => AsSwapped]_vars

\* the positions of a marker in the file, and the k-th of them
PositionsOf(marker) ==
    {k \in 1..(Len(content) - 2) : SubSeq(content, k, k + 2) = marker}

Kth(positions, k) == CHOOSE x \in positions : Cardinality({y \in positions : y <= x}) = k

Begins == PositionsOf(<<"BEGIN", ":", "VCARD">>)

Ends == PositionsOf(<<"END", ":", "VCARD">>)

Blank(from, to) == \A k \in from..to : content[k] \in Whitespace

\* the file is a sequence of entries, each from its BEGIN:VCARD to its
\* END:VCARD, with nothing but white space around them
WellFormed ==
    /\ Cardinality(Begins) = Cardinality(Ends)
    /\ \A k \in 1..Cardinality(Ends) :
          /\ Kth(Begins, k) < Kth(Ends, k)
          /\ Blank(IF k = 1 THEN 1 ELSE Kth(Ends, k - 1) + 3, Kth(Begins, k) - 1)
    /\ Blank(IF Ends = {} THEN 1 ELSE Kth(Ends, Cardinality(Ends)) + 3, Len(content))

\* the text of the k-th entry of a well-formed file, its blank tail cut
EntryText(k) ==
    rstrip(SubSeq(content, Kth(Begins, k), Kth(Ends, k) - 1)) \o <<NL, "END", ":", "VCARD">>

\* C11: for a well-formed file the entry splitter yields as many entries as
\* there are END:VCARD markers, in file order, blank fragments dropped, and
\* parse_vcard returns one pair list for each entry, an empty one for an entry
\* without pairs, in the same order.
C11_OneRecordPerEntry ==
    [][WellFormed =>
         /\ pc = "read" /\ pc' = "entry"
            => /\ Len(entries') = Cardinality(Ends)
               /\ \A k \in 1..Len(entries') : entries'[k] = EntryText(k)
         /\ pc = "entry" /\ pc' = "line"
            => Len(output) = index /\ fields' = splitlines(entries[index + 1])
         /\ pc = "group" /\ pc' = "entry"
            => output' = Append(output, save) /\ index' = index + 1
         /\ pc' = "return"
            => Len(output') = Cardinality(Ends)]_vars

\* C11: a file of three entries, the first without pairs, has been parsed
C11_Witness ==
    /\ pc = "return"
    /\ Cardinality(Ends) = 3
    /\ Len(output) = 3
    /\ output[1] = <<>>
    /\ output[2] # <<>>
    /\ output[3] = <<UnknownPair(UnknownLine)>>

\* the labels of the record list
Labels == {pair[1] : pair \in UNION {{output[e][k] : k \in 1..Len(output[e])} :
                                        e \in 1..Len(output)}}

\* the label has a place in the fixed arrangement: it is listed, or it starts
\* with one of the prefixes the arrangement collects
Recognized(label) ==
    \/ in(label, field_order) \/ in(label, field_order2)
    \/ /\ label # <<>>
       /\ Head(label) \in {"Phone: ", "Pager", "Fax: ", "Email: ", "Address: ", "Date: ",
                           "Relationship: "}

C13_BlankLineSilent ==
    [][AtTakenLine /\ strip(fields[fi]) = <<>>
       => save' = save /\ unknown' = unknown]_vars

=============================================================================
